---- MODULE Spec2Model ----
(***************************************************************************)
(* A model of the Annotation Region Engine of pdf2article:                 *)
(*   - AnnotatorService (annotator.service.ts): the region store, the      *)
(*     cascade delete, the point query, the page registry, the articleID   *)
(*     counter and the work mode (an rxjs BehaviorSubject);                *)
(*   - AnnotatorCanvasComponent (annotator-canvas.component.ts): the       *)
(*     mousedown / mousemove / mouseup handlers that build a region in the *)
(*     component's one reused currentAnnotation object.                    *)
(*                                                                         *)
(* JavaScript objects are modelled as heap cells: the store holds          *)
(* references, so that a copy (Object.assign({}, a)) and a shared          *)
(* reference are different things in the model as they are in the code.    *)
(***************************************************************************)
EXTENDS Integers, Sequences, FiniteSets, TLC

VARIABLES
    heap,            \* address -> Annotation: the Annotation objects alive
    annotations,     \* AnnotatorService.annotations: a sequence of references
    annotationType,  \* AnnotatorService.annotationType
    articleID,       \* AnnotatorService.articleID
    pagesProperties, \* AnnotatorService.pagesProperties
    workMode,        \* the current value of the BehaviorSubject workMode
    pdf,             \* AnnotatorService.pdf
    observers,       \* the consumers subscribed to getWorkMode()
    observed,        \* per consumer: the value its subscription delivered last
    issued,          \* the values getNextArticleID returned since the last clear()
    draw,            \* AnnotatorCanvasComponent.draw
    pageIndex,       \* AnnotatorCanvasComponent.pageIndex (an @Input)
    gesture          \* history: <<>>, or the pointer gesture begun by the last
                     \* mousedown and not yet ended by a mouseup: where it
                     \* began, the last position reported, the type then current

vars == <<heap, annotations, annotationType, articleID, pagesProperties,
          workMode, pdf, observers, observed, issued, draw, pageIndex, gesture>>

----------------------------------------------------------------------------
(* Bounds of the model *)

\* the store holds at most this many regions (guards of the adding actions)
MaxAnnotations == 3

\* getNextArticleID is called at most this many times between two clear()
MaxArticleID == 2

\* the store holds at most this many regions while the canvas is studied
MaxDrawn == 2

\* page indexes
Pages == {0, 1}

\* the page the canvas component is placed on
DrawnPages == {1}

\* the points a query or a delete is made at
Points == {<<0, 0>>, <<1, 0>>, <<1, 1>>}

\* the consumers that may subscribe to the work mode
Consumers == {"canvas", "toolbar"}

----------------------------------------------------------------------------
(* Values *)

\* a field that was never assigned, and a field assigned null
Undefined == "undefined"
Null == "null"

Article == "article"
Author == "author"
Title == "title"
Content == "content"
AnnotationType == {Article, Author, Title, Content}

Create == "create"
Delete == "delete"
WorkMode == {Create, Delete}

\* an optional number (pairKey?: number): <<>> when absent, <<k>> when set
NoKey == <<>>
Key(k) == <<k>>

Annotation(x, y, xEnd, yEnd, page, pairKey, tag) ==
    [x |-> x, y |-> y, xEnd |-> xEnd, yEnd |-> yEnd, page |-> page,
     pairKey |-> pairKey, tag |-> tag]

PageProperties(index, width, height) ==
    [pageIndex |-> index, pageDimensions |-> [width |-> width, height |-> height]]

\* the address of the canvas component's currentAnnotation object, created once
\* by the constructor's resetAnnotation() and never replaced
CanvasObj == 0

\* private articleID: number = 0
InitialArticleID == 0

\* what resetAnnotation() builds: no pairKey, no tag
BlankAnnotation == Annotation(0, 0, 0, 0, 0, NoKey, Undefined)

----------------------------------------------------------------------------
(* The heap *)

Range(s) == {s[i] : i \in DOMAIN s}

\* a new object: an address not in use, the one after the highest in use
Alloc(h) == (CHOOSE a \in DOMAIN h : \A b \in DOMAIN h : b <= a) + 1

\* Object.assign({}, o): a new object with the fields of o
\* returns the heap with the copy in it, and the copy's address
AssignCopy(h, ref) ==
    [heap |-> (Alloc(h) :> h[ref]) @@ h, ref |-> Alloc(h)]

\* the values of a sequence of references
Values(h, refs) == [i \in DOMAIN refs |-> h[refs[i]]]

\* garbage collection after an operation: the objects still referenced are the
\* canvas's currentAnnotation and the ones in the store; the store's i-th
\* object is moved to address i (addresses are not observable in JavaScript)
Collect(h, anns) ==
    LET owned == {i \in DOMAIN anns : anns[i] # CanvasObj}
    IN  [heap |-> [a \in {CanvasObj} \cup owned |->
                      IF a = CanvasObj THEN h[CanvasObj] ELSE h[anns[a]]],
         annotations |-> [i \in DOMAIN anns |->
                      IF anns[i] = CanvasObj THEN CanvasObj ELSE i]]

\* the regions in the store, as values, in store order
Store == Values(heap, annotations)

----------------------------------------------------------------------------
(* AnnotatorService: the operations as functions of the state *)

\* setAnnotation, were it to push the object passed itself
setAnnotation_NoCopy(h, anns, ref) ==
    [heap |-> h, annotations |-> Append(anns, ref)]

\* setAnnotation(annotation): push a copy of the object passed
setAnnotation(h, anns, ref) ==
    LET c == AssignCopy(h, ref)
    IN  [heap |-> c.heap, annotations |-> Append(anns, c.ref)]

\* .map(a => Object.assign({}, a)): one new object per element, in order
CopyAll(h, refs) ==
    LET top == Alloc(h) - 1
    IN  [heap |-> [a \in (top + 1)..(top + Len(refs)) |-> h[refs[a - top]]] @@ h,
         refs |-> [i \in DOMAIN refs |-> top + i]]

Reverse(s) == [i \in DOMAIN s |-> s[Len(s) + 1 - i]]

\* getAnnotations, were it to list the newest region first
getAnnotations_NewestFirst(h, anns, page) ==
    CopyAll(h, Reverse(SelectSeq(anns, LAMBDA ref : h[ref].page = page)))

\* getAnnotations(page): copies of the regions of the page, in store order
getAnnotations(h, anns, page) ==
    CopyAll(h, SelectSeq(anns, LAMBDA ref : h[ref].page = page))

\* hasAnnotation(x, y, page, annotation)
hasAnnotation(x, y, page, annotation) ==
    /\ x >= annotation.x /\ x <= (annotation.xEnd + annotation.x)
    /\ y >= annotation.y /\ y <= (annotation.yEnd + annotation.y)
    /\ page = annotation.page

\* getAnnotationFromCoords(x, y, page): the store's own objects under the point
getAnnotationFromCoords(h, anns, x, y, page) ==
    SelectSeq(anns, LAMBDA ref : hasAnnotation(x, y, page, h[ref]))

\* getArticle(x, y, page): the store's own Article objects under the point
getArticle(h, anns, x, y, page) ==
    SelectSeq(getAnnotationFromCoords(h, anns, x, y, page),
              LAMBDA ref : h[ref].tag = Article)

\* saveMetadata, were it to keep only the regions that have a label
saveMetadata_LabelledOnly(h, anns, registry) ==
    [payload |-> SelectSeq(anns, LAMBDA ref : h[ref].tag \notin {Article, Undefined}),
     pagesProperties |-> registry]

\* saveMetadata(id): the body { payload, pagesProperties } of the request; the
\* payload is a new array of the store's own objects, pagesProperties is the
\* registry
saveMetadata(h, anns, registry) ==
    [payload |-> SelectSeq(anns, LAMBDA ref : h[ref].tag # Article),
     pagesProperties |-> registry]

\* removeArticle, were an article without pairKey to be a record of its own
removeArticle_UnsetIsAlone(h, anns, article) ==
    SelectSeq(anns, LAMBDA ref : IF h[article].pairKey = NoKey
                                 THEN ref # article
                                 ELSE h[ref].pairKey # h[article].pairKey)

\* removeArticle, were it to stay on the article's page
removeArticle_SamePage(h, anns, article) ==
    SelectSeq(anns, LAMBDA ref : \/ h[ref].pairKey # h[article].pairKey
                                 \/ h[ref].page # h[article].page)

\* removeArticle(article): drop every region with the article's pairKey
removeArticle(h, anns, article) ==
    SelectSeq(anns, LAMBDA ref : h[ref].pairKey # h[article].pairKey)

\* remove, were it to cascade on the Article added last
remove_NewestArticle(h, anns, x, y, page) ==
    LET found == getAnnotationFromCoords(h, anns, x, y, page)
        articles == SelectSeq(found, LAMBDA ref : h[ref].tag = Article)
    IN  IF articles # <<>>
        THEN removeArticle(h, anns, articles[Len(articles)])
        ELSE SelectSeq(anns, LAMBDA ref : ~hasAnnotation(x, y, page, h[ref]))

\* remove, were it to cascade on whatever region it finds first
remove_CascadeAny(h, anns, x, y, page) ==
    LET found == getAnnotationFromCoords(h, anns, x, y, page)
    IN  IF found # <<>>
        THEN removeArticle(h, anns, found[1])
        ELSE anns

\* remove(x, y, page): the store after the call
remove(h, anns, x, y, page) ==
    LET found == getAnnotationFromCoords(h, anns, x, y, page)
        articles == SelectSeq(found, LAMBDA ref : h[ref].tag = Article)
    IN  IF articles # <<>>
        THEN removeArticle(h, anns, articles[1])
        ELSE SelectSeq(anns, LAMBDA ref : ~hasAnnotation(x, y, page, h[ref]))

\* workMode.next(mode): the subject's value becomes mode and every subscriber
\* is handed it
next(mode) ==
    /\ workMode' = mode
    /\ observed' = [c \in Consumers |-> IF c \in observers THEN mode ELSE observed[c]]

----------------------------------------------------------------------------
(* The initial state: the service and one canvas component constructed *)

Init ==
    /\ heap = (CanvasObj :> BlankAnnotation)
    /\ annotations = <<>>
    /\ annotationType = Undefined
    /\ articleID = InitialArticleID
    /\ pagesProperties = <<>>
    /\ workMode = Create
    /\ pdf = Undefined
    /\ observers = {}
    /\ observed = [c \in Consumers |-> Undefined]
    /\ issued = <<>>
    /\ draw = FALSE
    /\ pageIndex \in DrawnPages
    /\ gesture = <<>>

----------------------------------------------------------------------------
(* AnnotatorService: the operations called by a consumer *)

\* the objects a caller builds for a call: one new object per value
NewObjects(h, values) ==
    LET top == Alloc(h) - 1
    IN  [heap |-> [a \in (top + 1)..(top + Len(values)) |-> values[a - top]] @@ h,
         refs |-> [i \in DOMAIN values |-> top + i]]

\* setServerAnnotations, were it to go through the list from its end
RECURSIVE setServerAnnotations_Reversed(_, _, _)
setServerAnnotations_Reversed(h, anns, refs) ==
    IF refs = <<>> THEN [heap |-> h, annotations |-> anns]
    ELSE LET s == setAnnotation(h, anns, refs[Len(refs)])
         IN  setServerAnnotations_Reversed(s.heap, s.annotations,
                                           SubSeq(refs, 1, Len(refs) - 1))

\* setServerAnnotations(annotations): forEach item, setAnnotation(item)
RECURSIVE setServerAnnotations(_, _, _)
setServerAnnotations(h, anns, refs) ==
    IF refs = <<>> THEN [heap |-> h, annotations |-> anns]
    ELSE LET s == setAnnotation(h, anns, Head(refs))
         IN  setServerAnnotations(s.heap, s.annotations, Tail(refs))

\* a consumer calls setAnnotation with an object of its own holding r
SetAnnotation(r) ==
    /\ Len(annotations) < MaxAnnotations
    /\ LET arg == NewObjects(heap, <<r>>)
           s == setAnnotation(arg.heap, annotations, arg.refs[1])
           g == Collect(s.heap, s.annotations)
       IN  heap' = g.heap /\ annotations' = g.annotations
    /\ UNCHANGED <<annotationType, articleID, pagesProperties, workMode, pdf,
                   observers, observed, issued, draw, pageIndex,
                   gesture>>

\* the regions of a server response are loaded
SetServerAnnotations(list) ==
    /\ Len(annotations) + Len(list) <= MaxAnnotations
    /\ LET arg == NewObjects(heap, list)
           s == setServerAnnotations(arg.heap, annotations, arg.refs)
           g == Collect(s.heap, s.annotations)
       IN  heap' = g.heap /\ annotations' = g.annotations
    /\ UNCHANGED <<annotationType, articleID, pagesProperties, workMode, pdf,
                   observers, observed, issued, draw, pageIndex,
                   gesture>>

\* a consumer lists a page and overwrites the i-th object it was handed
MutateListed(page, i, v) ==
    /\ LET res == getAnnotations(heap, annotations, page)
       IN  /\ i \in DOMAIN res.refs
           /\ LET g == Collect([res.heap EXCEPT ![res.refs[i]] = v], annotations)
              IN  heap' = g.heap /\ annotations' = g.annotations
    /\ UNCHANGED <<annotationType, articleID, pagesProperties, workMode, pdf,
                   observers, observed, issued, draw, pageIndex,
                   gesture>>

\* a consumer asks what is under a point and overwrites the i-th object it was
\* handed
MutateFound(x, y, page, i, v) ==
    /\ LET found == getAnnotationFromCoords(heap, annotations, x, y, page)
       IN  /\ i \in DOMAIN found
           /\ LET g == Collect([heap EXCEPT ![found[i]] = v], annotations)
              IN  heap' = g.heap /\ annotations' = g.annotations
    /\ UNCHANGED <<annotationType, articleID, pagesProperties, workMode, pdf,
                   observers, observed, issued, draw, pageIndex,
                   gesture>>

\* a consumer asks for the Articles under a point and overwrites the first
MutateArticle(x, y, page, v) ==
    /\ LET found == getArticle(heap, annotations, x, y, page)
       IN  /\ found # <<>>
           /\ LET g == Collect([heap EXCEPT ![found[1]] = v], annotations)
              IN  heap' = g.heap /\ annotations' = g.annotations
    /\ UNCHANGED <<annotationType, articleID, pagesProperties, workMode, pdf,
                   observers, observed, issued, draw, pageIndex,
                   gesture>>

\* saveMetadata(id): the request is built from the store and the registry,
\* which it leaves alone
SaveMetadata ==
    /\ saveMetadata(heap, annotations, pagesProperties).payload
          \in Seq(DOMAIN heap)
    /\ UNCHANGED <<heap, annotations, annotationType, articleID, pagesProperties,
                   workMode, pdf, observers, observed, issued, draw, pageIndex,
                   gesture>>

\* the i-th object of the payload of a request is overwritten
MutateSaved(i, v) ==
    /\ LET body == saveMetadata(heap, annotations, pagesProperties)
       IN  /\ i \in DOMAIN body.payload
           /\ LET g == Collect([heap EXCEPT ![body.payload[i]] = v], annotations)
              IN  heap' = g.heap /\ annotations' = g.annotations
    /\ UNCHANGED <<annotationType, articleID, pagesProperties, workMode, pdf,
                   observers, observed, issued, draw, pageIndex,
                   gesture>>

\* setAnnotationType, were it to leave the work mode alone
SetAnnotationType_KeepMode(type) ==
    /\ annotationType' = type
    /\ UNCHANGED <<heap, annotations, articleID, pagesProperties, pdf, workMode,
                   observers, observed, issued, draw, pageIndex,
                   gesture>>

\* setAnnotationType(type)
SetAnnotationType(type) ==
    /\ annotationType' = type
    /\ next(Create)
    /\ UNCHANGED <<heap, annotations, articleID, pagesProperties, pdf,
                   observers, issued, draw, pageIndex,
                   gesture>>

\* setPagesProperties, were the last measurement of a page to win
setPagesProperties_LastWins(registry, pageProperties) ==
    IF \A i \in DOMAIN registry : registry[i].pageIndex # pageProperties.pageIndex
    THEN Append(registry, pageProperties)
    ELSE [i \in DOMAIN registry |->
             IF registry[i].pageIndex = pageProperties.pageIndex
             THEN pageProperties ELSE registry[i]]

\* setPagesProperties(pageProperties): the registry after the call
setPagesProperties(registry, pageProperties) ==
    IF \A i \in DOMAIN registry : registry[i].pageIndex # pageProperties.pageIndex
    THEN Append(registry, pageProperties)
    ELSE registry

SetPagesProperties(pageProperties) ==
    /\ pagesProperties' = setPagesProperties(pagesProperties, pageProperties)
    /\ UNCHANGED <<heap, annotations, annotationType, articleID, workMode, pdf,
                   observers, observed, issued, draw, pageIndex,
                   gesture>>

\* clear, were it to keep the counter
Clear_KeepCounter ==
    /\ LET g == Collect(heap, <<>>)
       IN  heap' = g.heap /\ annotations' = g.annotations
    /\ annotationType' = Null
    /\ next(Create)
    /\ pagesProperties' = <<>>
    /\ pdf' = Null
    /\ issued' = <<>>
    /\ UNCHANGED <<articleID, observers, draw, pageIndex,
                   gesture>>

\* clear, were it to keep the page registry
Clear_KeepRegistry ==
    /\ LET g == Collect(heap, <<>>)
       IN  heap' = g.heap /\ annotations' = g.annotations
    /\ articleID' = 0
    /\ annotationType' = Null
    /\ next(Create)
    /\ pdf' = Null
    /\ issued' = <<>>
    /\ UNCHANGED <<pagesProperties, observers, draw, pageIndex,
                   gesture>>

\* flushAnnotations, were it a full reset
FlushAnnotations_AsClear ==
    /\ LET g == Collect(heap, <<>>)
       IN  heap' = g.heap /\ annotations' = g.annotations
    /\ articleID' = 0
    /\ annotationType' = Null
    /\ next(Create)
    /\ pagesProperties' = <<>>
    /\ pdf' = Null
    /\ issued' = <<>>
    /\ UNCHANGED <<observers, draw, pageIndex,
                   gesture>>

\* flushAnnotations()
FlushAnnotations ==
    /\ LET g == Collect(heap, <<>>)
       IN  heap' = g.heap /\ annotations' = g.annotations
    /\ UNCHANGED <<annotationType, articleID, pagesProperties, workMode, pdf,
                   observers, observed, issued, draw, pageIndex,
                   gesture>>

\* clear()
Clear ==
    /\ LET g == Collect(heap, <<>>)
       IN  heap' = g.heap /\ annotations' = g.annotations
    /\ articleID' = 0
    /\ annotationType' = Null
    /\ next(Create)
    /\ pagesProperties' = <<>>
    /\ pdf' = Null
    /\ issued' = <<>>
    /\ UNCHANGED <<observers, draw, pageIndex,
                   gesture>>

\* remove(x, y, page)
Remove(x, y, page) ==
    /\ LET g == Collect(heap, remove(heap, annotations, x, y, page))
       IN  heap' = g.heap /\ annotations' = g.annotations
    /\ UNCHANGED <<annotationType, articleID, pagesProperties, workMode, pdf,
                   observers, observed, issued, draw, pageIndex,
                   gesture>>

\* getNextArticleID(): the counter after the call and the value returned
getNextArticleID(id) == [articleID |-> id + 1, result |-> id + 1]

GetNextArticleID ==
    /\ articleID < MaxArticleID
    /\ articleID' = getNextArticleID(articleID).articleID
    /\ issued' = Append(issued, getNextArticleID(articleID).result)
    /\ UNCHANGED <<heap, annotations, annotationType, pagesProperties, workMode,
                   pdf, observers, observed, draw, pageIndex,
                   gesture>>

\* setWorkMode(mode)
SetWorkMode(mode) ==
    /\ next(mode)
    /\ UNCHANGED <<heap, annotations, annotationType, articleID, pagesProperties,
                   pdf, observers, issued, draw, pageIndex,
                   gesture>>

\* a subject that would hand a new subscriber the value it was built with
replay_Initial(current) == Create

\* what a BehaviorSubject hands a new subscriber at once: its current value
replay(current) == current

\* getWorkMode().subscribe(...) by a consumer not yet subscribed
Subscribe(c) ==
    /\ c \notin observers
    /\ observers' = observers \cup {c}
    /\ observed' = [observed EXCEPT ![c] = replay(workMode)]
    /\ UNCHANGED <<heap, annotations, annotationType, articleID, pagesProperties,
                   workMode, pdf, issued, draw, pageIndex,
                   gesture>>

\* fetchPDF(documentUrl) resolves: the document handle is kept
FetchPDF(document) ==
    /\ pdf' = document
    /\ UNCHANGED <<heap, annotations, annotationType, articleID, pagesProperties,
                   workMode, observers, observed, issued, draw, pageIndex,
                   gesture>>

----------------------------------------------------------------------------
(* AnnotatorCanvasComponent: the pointer handlers *)

\* onMouseDown($event)
OnMouseDown(offsetX, offsetY) ==
    /\ heap' = [heap EXCEPT ![CanvasObj].x = offsetX,
                            ![CanvasObj].y = offsetY,
                            ![CanvasObj].tag = annotationType]
    /\ draw' = TRUE
    /\ gesture' = <<[down |-> <<offsetX, offsetY>>, last |-> <<offsetX, offsetY>>,
                     type |-> annotationType]>>
    /\ UNCHANGED <<annotations, annotationType, articleID, pagesProperties,
                   workMode, pdf, observers, observed, issued, pageIndex>>

\* onMouseMove($event); drawAnnotations() only reads copies of the store
OnMouseMove(offsetX, offsetY) ==
    /\ IF ~draw
       THEN heap' = heap
       ELSE heap' = [heap EXCEPT
                ![CanvasObj].xEnd = offsetX - heap[CanvasObj].x,
                ![CanvasObj].yEnd = offsetY - heap[CanvasObj].y]
    /\ gesture' = [i \in DOMAIN gesture |->
                      [gesture[i] EXCEPT !.last = <<offsetX, offsetY>>]]
    /\ UNCHANGED <<annotations, annotationType, articleID, pagesProperties,
                   workMode, pdf, observers, observed, issued, draw, pageIndex>>

\* onMouseUp, were it to leave the draw flag set
OnMouseUp_KeepDrawing ==
    /\ draw => Len(annotations) < MaxAnnotations
    /\ IF draw
       THEN LET h == [heap EXCEPT ![CanvasObj].page = pageIndex]
                s == setAnnotation(h, annotations, CanvasObj)
                g == Collect(s.heap, s.annotations)
            IN  heap' = g.heap /\ annotations' = g.annotations
       ELSE UNCHANGED <<heap, annotations>>
    /\ gesture' = <<>>
    /\ UNCHANGED <<annotationType, articleID, pagesProperties, workMode, pdf,
                   observers, observed, issued, draw, pageIndex>>

\* onMouseUp($event)
OnMouseUp ==
    /\ draw => Len(annotations) < MaxAnnotations
    /\ IF draw
       THEN LET h == [heap EXCEPT ![CanvasObj].page = pageIndex]
                s == setAnnotation(h, annotations, CanvasObj)
                g == Collect(s.heap, s.annotations)
            IN  heap' = g.heap /\ annotations' = g.annotations
       ELSE UNCHANGED <<heap, annotations>>
    /\ draw' = FALSE
    /\ gesture' = <<>>
    /\ UNCHANGED <<annotationType, articleID, pagesProperties, workMode, pdf,
                   observers, observed, issued, pageIndex>>

----------------------------------------------------------------------------
(* Inputs *)

\* rectangles as <<x, y, xEnd, yEnd>>: the whole page, one point, and a
\* rectangle drawn from its lower right corner up and to the left
Whole == <<0, 0, 1, 1>>
Corner == <<1, 1, 0, 0>>
Backward == <<1, 1, -1, -1>>

Region(rect, page, pairKey, tag) ==
    Annotation(rect[1], rect[2], rect[3], rect[4], page, pairKey, tag)

\* the regions a consumer or the server submits, when the store is studied
Regions ==
    {Region(rect, 0, k[1], k[2]) :
        rect \in {Whole, Corner},
        k \in {<<Key(1), Article>>, <<Key(1), Title>>, <<Key(2), Title>>,
               <<NoKey, Article>>}}
    \cup {Region(Backward, 0, Key(1), Title), Region(Backward, 0, NoKey, Undefined)}
    \cup {Region(Whole, 1, Key(1), Title), Region(Whole, 1, Key(2), Article)}

\* the regions submitted when the session state is studied
FewRegions ==
    {Region(Whole, 0, Key(1), Article), Region(Corner, 1, Key(1), Title)}

\* the values a consumer writes over an object it holds
Scribbles == {Annotation(1, 1, 1, 1, 1, Key(2), Article)}

\* the region a consumer other than the canvas adds while the canvas is studied
KeyedRegions == {Region(Whole, 0, Key(1), Title)}

\* a region without pairKey on the page the canvas does not draw on
UnkeyedRegions == {Region(Corner, 0, NoKey, Title)}

\* the regions submitted when the saved request is studied: a container, a
\* labelled region of its record and a region without label
SavedRegions ==
    {Region(Whole, 0, Key(1), Article), Region(Corner, 0, Key(1), Title),
     Region(Whole, 1, NoKey, Undefined)}

\* the labels chosen in the toolbar
Labels == {Article, Title}

\* page measurements reported by the renderer
Measurements == {PageProperties(p, w, 1) : p \in Pages, w \in {1, 2}}

\* the pointer positions on the canvas
Offsets == {<<0, 0>>, <<1, 1>>}

Lists(S) == {<<>>} \cup {<<a>> : a \in S} \cup {<<a, b>> : a \in S, b \in S}

----------------------------------------------------------------------------
(* Specifications *)

\* the service under an arbitrary consumer; the session state in full
Next ==
    \/ \E r \in FewRegions : SetAnnotation(r)
    \/ \E l \in Lists(FewRegions) : SetServerAnnotations(l)
    \/ \E p \in Points, page \in Pages : Remove(p[1], p[2], page)
    \/ FlushAnnotations
    \/ Clear
    \/ \E t \in Labels : SetAnnotationType(t)
    \/ \E pp \in Measurements : SetPagesProperties(pp)
    \/ GetNextArticleID
    \/ \E m \in WorkMode : SetWorkMode(m)
    \/ \E c \in Consumers : Subscribe(c)
    \/ FetchPDF("document")

Spec == Init /\ [][Next]_vars

\* the region store under an arbitrary consumer; many regions
NextStore ==
    \/ \E r \in Regions : SetAnnotation(r)
    \/ \E l \in Lists(FewRegions) : SetServerAnnotations(l)
    \/ \E p \in Points, page \in Pages : Remove(p[1], p[2], page)
    \/ \E page \in Pages, i \in 1..MaxAnnotations, v \in Scribbles :
          MutateListed(page, i, v)
    \/ FlushAnnotations
    \/ Clear

SpecStore == Init /\ [][NextStore]_vars

\* the canvas component drawing into the service
NextCanvas ==
    \/ \E o \in Offsets : OnMouseDown(o[1], o[2])
    \/ \E o \in Offsets : OnMouseMove(o[1], o[2])
    \/ (draw => Len(annotations) < MaxDrawn) /\ OnMouseUp
    \/ \E t \in {Article} : SetAnnotationType(t)
    \/ \E m \in WorkMode : SetWorkMode(m)
    \/ \E p \in Points, page \in Pages : Remove(p[1], p[2], page)
    \/ \E page \in Pages, i \in 1..MaxAnnotations, v \in Scribbles :
          MutateListed(page, i, v)
    \/ \E r \in KeyedRegions \cup UnkeyedRegions :
          Len(annotations) < MaxDrawn /\ SetAnnotation(r)

SpecCanvas == Init /\ [][NextCanvas]_vars

\* a session in which the regions come from the server
NextLoad ==
    \/ \E l \in Lists(FewRegions) : SetServerAnnotations(l)
    \/ FlushAnnotations
    \/ Clear
    \/ \E t \in Labels : SetAnnotationType(t)
    \/ \E pp \in Measurements : SetPagesProperties(pp)
    \/ GetNextArticleID
    \/ \E m \in WorkMode : SetWorkMode(m)

SpecLoad == Init /\ [][NextLoad]_vars

\* the service saving, and a consumer writing to what it was handed
NextSave ==
    \/ \E r \in SavedRegions : SetAnnotation(r)
    \/ \E p \in Points, page \in Pages : Remove(p[1], p[2], page)
    \/ \E pp \in Measurements : SetPagesProperties(pp)
    \/ SaveMetadata
    \/ \E page \in Pages, i \in 1..MaxAnnotations, v \in Scribbles :
          MutateListed(page, i, v)
    \/ \E p \in Points, page \in Pages, i \in 1..MaxAnnotations, v \in Scribbles :
          MutateFound(p[1], p[2], page, i, v)
    \/ \E p \in Points, page \in Pages, v \in Scribbles :
          MutateArticle(p[1], p[2], page, v)
    \/ \E i \in 1..MaxAnnotations, v \in Scribbles : MutateSaved(i, v)
    \/ Clear

SpecSave == Init /\ [][NextSave]_vars

----------------------------------------------------------------------------
(* Properties of the region store (SpecStore) *)

Min(S) == CHOOSE m \in S : \A n \in S : m <= n

\* the elements of a sequence at the indexes in keep, in the sequence's order
RECURSIVE Kept(_, _)
Kept(S, keep) ==
    IF S = <<>> THEN <<>>
    ELSE LET front == Kept(SubSeq(S, 1, Len(S) - 1), keep)
         IN  IF Len(S) \in keep THEN Append(front, S[Len(S)]) ELSE front

\* the indexes of the stored regions remove(x, y, page) finds under the point
Under(x, y, page) ==
    {i \in DOMAIN Store : hasAnnotation(x, y, page, Store[i])}

ArticlesUnder(x, y, page) ==
    {i \in Under(x, y, page) : Store[i].tag = Article}

\* C1: cascade delete.  When remove(x, y, page) finds a region tagged Article
\* under the point, no region with that Article's pairKey (the first Article
\* found) is left in the store afterwards, on any page.
C1_CascadeDelete ==
    [][\A p \in Points, page \in Pages :
         (Remove(p[1], p[2], page) /\ ArticlesUnder(p[1], p[2], page) # {}) =>
            LET article == Store[Min(ArticlesUnder(p[1], p[2], page))]
            IN  \A j \in DOMAIN Store' : Store'[j].pairKey # article.pairKey]_vars

\* an Article under a point, with a region of its record on another page
C1_Witness ==
    \E p \in Points, page \in Pages :
        \E i \in ArticlesUnder(p[1], p[2], page) :
            \E j \in DOMAIN Store :
                /\ Store[j].pairKey = Store[i].pairKey
                /\ Store[j].page # page
                /\ Len(Store) = MaxAnnotations

\* C2: non-cascading delete.  When no Article is under the point,
\* remove(x, y, page) leaves exactly the regions that are not under the point,
\* unchanged and in their order; regions sharing a pairKey with a removed one
\* stay, and with nothing under the point the store is unchanged.
C2_PlainDelete ==
    [][\A p \in Points, page \in Pages :
         (Remove(p[1], p[2], page) /\ ArticlesUnder(p[1], p[2], page) = {}) =>
            Store' = Kept(Store, DOMAIN Store \ Under(p[1], p[2], page))]_vars

\* no Article under a point, a region under it, and two regions not under it
\* of which one shares the pairKey of the region under the point
C2_Witness ==
    \E p \in Points, page \in Pages :
        /\ ArticlesUnder(p[1], p[2], page) = {}
        /\ \E i \in Under(p[1], p[2], page) :
              \E j \in DOMAIN Store \ Under(p[1], p[2], page) :
                  Store[j].pairKey = Store[i].pairKey
        /\ Cardinality(DOMAIN Store \ Under(p[1], p[2], page)) >= 2

\* the rectangle spanned by origin and origin + extent, whatever their order
Spans(from, extent, v) ==
    IF extent >= 0 THEN from <= v /\ v <= from + extent
                   ELSE from + extent <= v /\ v <= from

\* C3: hasAnnotation(x, y, page, region) is true iff the region is on the page
\* and the point lies between the smaller and the larger of origin and
\* origin + extent, in x and in y.
C3_HitTestEitherSign ==
    \A i \in DOMAIN Store : \A p \in Points, page \in Pages :
        hasAnnotation(p[1], p[2], page, Store[i]) <=>
            /\ Store[i].page = page
            /\ Spans(Store[i].x, Store[i].xEnd, p[1])
            /\ Spans(Store[i].y, Store[i].yEnd, p[2])

----------------------------------------------------------------------------
(* Properties of the canvas drawing into the store (SpecCanvas) *)

\* what getAnnotations(page) returns, as values
Listed(page) ==
    LET res == getAnnotations(heap, annotations, page)
    IN  Values(res.heap, res.refs)

\* C4: add / list round trip with copy isolation.  After setAnnotation(r),
\* getAnnotations(r.page) contains a value equal to r in every field, an
\* absent tag or pairKey staying absent; writing to the object that was passed
\* (the canvas does, on its next gesture) or to an object that getAnnotations
\* returned changes no region of the store.
C4_AddListCopy ==
    [][/\ (draw /\ OnMouseUp) =>
            [heap[CanvasObj] EXCEPT !.page = pageIndex] \in Range(Listed(pageIndex)')
       /\ \A r \in KeyedRegions :
            SetAnnotation(r) => r \in Range(Listed(r.page)')
       /\ ( \/ \E o \in Offsets : OnMouseDown(o[1], o[2])
            \/ \E o \in Offsets : OnMouseMove(o[1], o[2])
            \/ \E page \in Pages, i \in 1..MaxAnnotations, v \in Scribbles :
                  MutateListed(page, i, v) )
            => Store' = Store]_vars

\* a region the canvas committed, with neither tag nor pairKey, is in the
\* store, and the canvas has since begun a gesture elsewhere under a label
C4_Witness ==
    /\ draw
    /\ \E i \in DOMAIN Store :
          /\ Store[i].page = pageIndex
          /\ Store[i].pairKey = NoKey
          /\ Store[i].tag = Undefined
          /\ Store[i].x # heap[CanvasObj].x
          /\ heap[CanvasObj].tag = Article

----------------------------------------------------------------------------
(* Properties of the session state (Spec) *)

IsPrefix(s, t) == Len(s) <= Len(t) /\ \A i \in DOMAIN s : s[i] = t[i]

\* C5: the page registry has at most one entry per pageIndex; setPagesProperties
\* for an index already present changes nothing, whatever dimensions it
\* carries; no operation but clear() removes or changes an entry.
C5_PageRegistry ==
    /\ [](\A i, j \in DOMAIN pagesProperties :
            pagesProperties[i].pageIndex = pagesProperties[j].pageIndex => i = j)
    /\ [][/\ \A pp \in Measurements :
               ( /\ SetPagesProperties(pp)
                 /\ \E i \in DOMAIN pagesProperties :
                       pagesProperties[i].pageIndex = pp.pageIndex )
               => pagesProperties' = pagesProperties
          /\ ~Clear => IsPrefix(pagesProperties, pagesProperties')]_vars

\* both pages are registered, so that a further measurement of either page,
\* with the other width, finds its index present
C5_Witness ==
    /\ Len(pagesProperties) = Cardinality(Pages)
    /\ \E pp \in Measurements : \A i \in DOMAIN pagesProperties :
          pagesProperties[i] # pp
    /\ annotations # <<>>

\* C6: the work mode is Create initially; setWorkMode(m) makes it m;
\* setAnnotationType(tag) leaves it Create whatever it was; it is always one
\* of Create and Delete, and only setWorkMode, setAnnotationType and clear
\* change it.
C6_WorkModeMachine ==
    /\ workMode = Create
    /\ [](workMode \in WorkMode)
    /\ [][/\ \A m \in WorkMode : SetWorkMode(m) => workMode' = m
          /\ \A t \in Labels : SetAnnotationType(t) => workMode' = Create
          /\ workMode' # workMode =>
                \/ \E m \in WorkMode : SetWorkMode(m)
                \/ \E t \in Labels : SetAnnotationType(t)
                \/ Clear]_vars

\* the mode is Delete, a label chosen earlier: the next choice of a label
\* finds the mode Delete
C6_Witness ==
    /\ workMode = Delete
    /\ annotationType \in Labels

\* C7: work-mode replay.  A consumer that subscribes is handed the mode of the
\* most recent transition, and every later transition as it happens, so that
\* after each operation every subscriber holds the current mode.
C7_WorkModeReplay ==
    \A c \in observers : observed[c] = workMode

\* every consumer is subscribed and the mode is Delete
C7_Witness ==
    /\ observers = Consumers
    /\ workMode = Delete
    /\ \A c \in Consumers : observed[c] = Delete

\* C8: the values getNextArticleID returns without a clear() in between are
\* strictly increasing, hence distinct, whatever else is called; the first
\* value returned after a clear() is the first value of a fresh session.
C8_ArticleIDs ==
    /\ \A i, j \in DOMAIN issued : i < j => issued[i] < issued[j]
    /\ issued # <<>> => issued[1] = getNextArticleID(InitialArticleID).result

\* after a clear() (nothing else assigns null) the counter was used again, up
\* to the bound, with regions in the store
C8_Witness ==
    /\ pdf = Null
    /\ Len(issued) >= MaxArticleID
    /\ annotations # <<>>

\* C9: flushAnnotations() empties the store, so that getAnnotations(p) is empty
\* for every page p, and leaves the page registry, the articleID counter, the
\* annotation type and the work mode as they were.
C9_FlushIsNotClear ==
    [][FlushAnnotations =>
          /\ \A p \in Pages : Listed(p)' = <<>>
          /\ UNCHANGED <<pagesProperties, articleID, annotationType, workMode>>]_vars

\* a state flushAnnotations() is called in: regions in the store, a page
\* registered, the counter used, a label chosen and the mode Delete
C9_Witness ==
    /\ Len(annotations) >= 2
    /\ pagesProperties # <<>>
    /\ articleID > InitialArticleID
    /\ annotationType \in Labels
    /\ workMode = Delete

\* a field that holds no value
Unset == {Undefined, Null}

C11_BulkLoad ==
    [][\A l \in Lists(FewRegions) :
         SetServerAnnotations(l) =>
            /\ Store' = Store \o l
            /\ UNCHANGED <<articleID, pagesProperties, annotationType, workMode>>]_vars

\* a store that a load of two different items onto one region leaves, in a
\* session whose counter, registry, label and mode are not the initial ones
C11_Witness ==
    /\ Len(Store) >= 3
    /\ Store[2] # Store[3]
    /\ articleID > InitialArticleID
    /\ pagesProperties # <<>>
    /\ annotationType \in Labels
    /\ workMode = Delete

\* C12: getAnnotations(page) returns exactly the stored regions of the page,
\* in the order they were inserted: an added region goes last, and remove
\* keeps the regions it leaves in their order.
C12_ListedInInsertionOrder ==
    /\ [](\A page \in Pages :
            Listed(page) = Kept(Store, {i \in DOMAIN Store : Store[i].page = page}))
    /\ [][/\ \A r \in Regions : SetAnnotation(r) => Store' = Append(Store, r)
          /\ (\E p \in Points, page \in Pages : Remove(p[1], p[2], page)) =>
                \E keep \in SUBSET DOMAIN Store : Store' = Kept(Store, keep)]_vars

\* two different regions of one page with a region of another page in the store
C12_Witness ==
    \E page \in Pages :
        /\ Len(Listed(page)) >= 2
        /\ Listed(page)[1] # Listed(page)[2]
        /\ Len(Store) > Len(Listed(page))

----------------------------------------------------------------------------
(* Properties of saving and of ownership (SpecSave, Spec) *)

\* the body of the request saveMetadata builds, its regions as values
Envelope ==
    LET body == saveMetadata(heap, annotations, pagesProperties)
    IN  [payload |-> Values(heap, body.payload),
         pagesProperties |-> body.pagesProperties]

\* C13: the payload saveMetadata builds holds exactly the stored regions whose
\* tag is not Article, those without tag included, in store order, with the
\* complete page registry; building it changes neither store nor registry.
C13_SaveEnvelope ==
    /\ [](/\ Envelope.payload =
               Kept(Store, {i \in DOMAIN Store : Store[i].tag # Article})
          /\ Envelope.pagesProperties = pagesProperties)
    /\ [][SaveMetadata => UNCHANGED <<heap, annotations, pagesProperties>>]_vars

\* an Article, a labelled region and a region without tag are in the store,
\* and every page is registered
C13_Witness ==
    /\ \E i, j, k \in DOMAIN Store :
          /\ Store[i].tag = Article
          /\ Store[j].tag = Title
          /\ Store[k].tag = Undefined
    /\ Len(Envelope.payload) = 2
    /\ Len(pagesProperties) = Cardinality(Pages)

\* C14: every value getNextArticleID returns is fresh: it is the pairKey of no
\* region in the store at that time.
C14_FreshPairKey ==
    [][GetNextArticleID =>
          \A i \in DOMAIN Store' :
              Store'[i].pairKey # Key(issued'[Len(issued')])]_vars

\* C15: no consumer holds a reference into the store or the registry: writing
\* to an object that a read returned (getAnnotations, getAnnotationFromCoords,
\* getArticle, the request of saveMetadata) changes neither.
C15_ExclusiveOwnership ==
    [][( \/ \E page \in Pages, i \in 1..MaxAnnotations, v \in Scribbles :
               MutateListed(page, i, v)
         \/ \E p \in Points, page \in Pages, i \in 1..MaxAnnotations, v \in Scribbles :
               MutateFound(p[1], p[2], page, i, v)
         \/ \E p \in Points, page \in Pages, v \in Scribbles :
               MutateArticle(p[1], p[2], page, v)
         \/ \E i \in 1..MaxAnnotations, v \in Scribbles : MutateSaved(i, v) )
       => (Store' = Store /\ pagesProperties' = pagesProperties)]_vars

----------------------------------------------------------------------------
(* Properties of the pointer gestures (SpecCanvas) *)

\* the region at the end of the store
Newest(store) == store[Len(store)]

\* C16: a gesture completed on the canvas while the work mode is Delete appends
\* no region to the store; gestures create regions only in mode Create.
C16_DeleteModeDrawsNothing ==
    [][(OnMouseUp /\ workMode = Delete) => Store' = Store]_vars

\* C17: the region committed on release has the mousedown position as origin
\* and, as extent, the last position reported in that gesture minus the origin:
\* (0, 0) when no move came between mousedown and mouseup.
C17_ExtentOfThisGesture ==
    [][(OnMouseUp /\ gesture # <<>>) =>
          LET r == Newest(Store')
              g == gesture[1]
          IN  /\ <<r.x, r.y>> = g.down
              /\ <<r.xEnd, r.yEnd>> = <<g.last[1] - g.down[1], g.last[2] - g.down[2]>>]_vars

\* C18: of the pointer events, only a mouseup that ends a pending gesture
\* appends to the store, exactly one region, on the canvas's pageIndex and with
\* the annotation type current at its mousedown; a mouseup with no gesture
\* pending, a mousedown and a mousemove leave the store as it is.
C18_GestureMachine ==
    /\ [](draw <=> gesture # <<>>)
    /\ [][/\ ( \/ \E o \in Offsets : OnMouseDown(o[1], o[2])
               \/ \E o \in Offsets : OnMouseMove(o[1], o[2])
               \/ (OnMouseUp /\ gesture = <<>>) )
               => Store' = Store
          /\ (OnMouseUp /\ gesture # <<>>) =>
               /\ Len(Store') = Len(Store) + 1
               /\ SubSeq(Store', 1, Len(Store)) = Store
               /\ Newest(Store').page = pageIndex
               /\ Newest(Store').tag = gesture[1].type]_vars

\* a region was committed, and a gesture is pending that began before the
\* annotation type was changed and can still be committed
C18_Witness ==
    /\ gesture # <<>>
    /\ gesture[1].type # annotationType
    /\ gesture[1].last # gesture[1].down
    /\ Len(Store) < MaxDrawn
    /\ \E i \in DOMAIN Store : Store[i].page = pageIndex /\ Store[i].tag = Undefined

\* C19: with several Articles under the point, remove(x, y, page) cascades on
\* the one added first only: exactly the regions whose pairKey differs from
\* that Article's stay, the other Articles and the other regions under the
\* point among them, unchanged and in their order.
C19_SingleCascadeTarget ==
    [][\A p \in Points, page \in Pages :
         ( /\ Remove(p[1], p[2], page)
           /\ Cardinality(ArticlesUnder(p[1], p[2], page)) >= 2 )
         => LET first == Store[Min(ArticlesUnder(p[1], p[2], page))]
            IN  Store' = Kept(Store, {i \in DOMAIN Store :
                                         Store[i].pairKey # first.pairKey})]_vars

\* two Articles of different records under a point, and a region of a third
\* record under the point too
C19_Witness ==
    \E p \in Points, page \in Pages :
        LET articles == ArticlesUnder(p[1], p[2], page)
        IN  /\ \E i, j \in articles :
                  i < j /\ i = Min(articles) /\ Store[i].pairKey # Store[j].pairKey
            /\ \E k \in Under(p[1], p[2], page) \ articles :
                  \A i \in articles : Store[k].pairKey # Store[i].pairKey

\* C20: a region the canvas commits carries no pairKey, and remove at a point
\* under an Article without pairKey leaves exactly the regions that have one:
\* every region without pairKey goes, on every page.
C20_UnsetPairKeyShared ==
    [][/\ (OnMouseUp /\ gesture # <<>>) => Newest(Store').pairKey = NoKey
       /\ \A p \in Points, page \in Pages :
            ( /\ Remove(p[1], p[2], page)
              /\ ArticlesUnder(p[1], p[2], page) # {}
              /\ Store[Min(ArticlesUnder(p[1], p[2], page))].pairKey = NoKey )
            => Store' = Kept(Store, {i \in DOMAIN Store : Store[i].pairKey # NoKey})]_vars

\* an Article the canvas drew lies under a point, and a region without pairKey
\* is in the store on another page
C20_Witness ==
    \E p \in Points :
        \E i \in ArticlesUnder(p[1], p[2], pageIndex) :
            /\ Store[i].pairKey = NoKey
            /\ \E j \in DOMAIN Store :
                  Store[j].pairKey = NoKey /\ Store[j].page # pageIndex

====
